---- MODULE Spec2Model ----
(***************************************************************************)
(* Model of backend/main.py: the MCSCF result cache (get_mcscf_results),   *)
(* the three request handlers (molecule info, single orbital, orbital      *)
(* batch) with their binary encodings, and the orbital labeler             *)
(* (generate_orbital_labels).                                              *)
(*                                                                         *)
(* The quantum-chemistry library is external.  Its outputs are stood for   *)
(* by small deterministic values: a solve result records the molecule, the *)
(* number of orbital columns and the serial of the solver run that built   *)
(* it (its object identity); a float32 is the 4 bytes of its bit pattern.  *)
(***************************************************************************)
EXTENDS Integers, Sequences, FiniteSets, TLC

\* ------------------------------------------------------------------ bounds
MaxOrb == 2        \* largest number of orbital columns a solve returns
MaxLen == 2        \* longest index list of a batch request
MaxGrid == 2       \* largest grid_size requested
NCallers == 2      \* concurrent callers of get_mcscf_results
MaxAO == 3         \* basis functions of the labeler's molecule
MaxCoeff == 2      \* orbital coefficients range over -MaxCoeff..MaxCoeff

\* ------------------------------------------------------- molecule presets
\* MOLECULE_PRESETS: the order is the dict's insertion order.
PresetOrder ==
  << "water", "formaldehyde", "ethylene", "nitrogen",
     "hydrogen_fluoride", "lithium_hydride" >>

PresetKeys == { PresetOrder[i] : i \in 1..Len(PresetOrder) }

MOLECULE_PRESETS ==
  [ m \in PresetKeys |->
      CASE m = "water"             -> [ncas |-> 4, nelecas |-> 4]
        [] m = "formaldehyde"      -> [ncas |-> 4, nelecas |-> 4]
        [] m = "ethylene"          -> [ncas |-> 2, nelecas |-> 2]
        [] m = "nitrogen"          -> [ncas |-> 6, nelecas |-> 6]
        [] m = "hydrogen_fluoride" -> [ncas |-> 4, nelecas |-> 4]
        [] m = "lithium_hydride"   -> [ncas |-> 2, nelecas |-> 2] ]

\* Ids a client may send: every preset and two ids that are no preset.
MoleculeIds == PresetKeys \cup {"benzene", ""}

PresetIndex(m) == CHOOSE i \in 1..Len(PresetOrder) : PresetOrder[i] = m

\* natorbs.shape[1] of the solver's result for preset m (the solver is
\* deterministic: the same preset always gives the same shape).
NumOrbitals(m) == 1 + (PresetIndex(m) % MaxOrb)

\* The solver pipeline gto.M / RHF / CASSCF / cas_natorb and the dict built
\* from it; run is the serial of the solver run, the identity of the object.
SolveResult(m, k) ==
  [mol |-> m, norb |-> NumOrbitals(m), ncas |-> MOLECULE_PRESETS[m].ncas, run |-> k]

EmptyCache == [m \in {} |-> 0]

\* _cached_mcscf[molecule_id] = {...}
CacheStore(c, m, r) == [x \in (DOMAIN c) \cup {m} |-> IF x = m THEN r ELSE c[x]]

\* ------------------------------------------------------------ byte packing
RECURSIVE Pow(_, _)
Pow(b, e) == IF e = 0 THEN 1 ELSE b * Pow(b, e - 1)

\* The 4 bytes of a signed 32-bit integer, most significant first.
Int32Word(v) ==
  LET u == IF v >= 0 THEN v ELSE v + 2147483647 + 1
      top == u \div 16777216
  IN  << IF v >= 0 THEN top ELSE top + 128,
         (u \div 65536) % 256, (u \div 256) % 256, u % 256 >>

\* A word laid out in the given byte order ("little" or "big").
WordBytes(w, order) ==
  IF order = "little" THEN << w[4], w[3], w[2], w[1] >> ELSE w

RECURSIVE Flatten(_)
Flatten(ss) == IF ss = << >> THEN << >> ELSE Head(ss) \o Flatten(Tail(ss))

\* The bytes of a sequence of words in one byte order.
PackWords(ws, order) ==
  [i \in 1..(4 * Len(ws)) |-> WordBytes(ws[((i - 1) \div 4) + 1], order)[((i - 1) % 4) + 1]]

\* ------------------------------------------------------------------- state
VARIABLES
  cache,       \* _cached_mcscf: molecule id -> solve result
  solveCount,  \* solver runs started so far, per molecule id
  byteorder,   \* native byte order of the platform running the server
  req,         \* the request being served, or NoRequest
  results,     \* the handler's local: what get_mcscf_results returned to it
  resp,        \* its response, or NoResponse
  events,      \* solver runs and grid samplings done while serving req
  pc,          \* per concurrent caller of get_mcscf_results: its position
  arg,         \* per caller: the molecule_id it passed
  built,       \* per caller: the result dict its solver run produced
  ret,         \* per caller: what its call returned or raised
  lmol,        \* labeler input: the molecule (atoms and basis functions)
  lcoeffs,     \* labeler input: one orbital's coefficient column
  labels       \* labeler output

vars == << cache, solveCount, byteorder, req, results, resp, events,
           pc, arg, built, ret, lmol, lcoeffs, labels >>

serverVars == << cache, solveCount, byteorder, req, results, resp, events >>
callerVars == << pc, arg, built, ret >>
labelVars == << lmol, lcoeffs, labels >>

NoRequest == [endpoint |-> "none"]
NoResponse == [status |-> 0, kind |-> "none", body |-> << >>]
NoValue == [mol |-> "none", norb |-> 0, ncas |-> 0, run |-> 0]

Callers == 1..NCallers

\* get_mcscf_results without its "not in _cached_mcscf" test: every call of a
\* preset id solves again and overwrites the entry.
GetMcscfResults_NoCacheCheck(c, sc, m) ==
  IF m \notin DOMAIN MOLECULE_PRESETS
    THEN [raised |-> TRUE, cache |-> c, solves |-> sc, result |-> NoValue,
          events |-> << >>]
    ELSE LET k == sc[m] + 1
             c2 == CacheStore(c, m, SolveResult(m, k))
         IN  [raised |-> FALSE, cache |-> c2,
              solves |-> [sc EXCEPT ![m] = k], result |-> c2[m],
              events |-> << <<"solve", m>> >>]

\* get_mcscf_results looking the preset up only after it started the solver.
GetMcscfResults_SolveFirst(c, sc, m) ==
  IF m \in DOMAIN c
    THEN [raised |-> FALSE, cache |-> c, solves |-> sc, result |-> c[m],
          events |-> << >>]
    ELSE IF m \notin DOMAIN MOLECULE_PRESETS
      THEN [raised |-> TRUE, cache |-> c, solves |-> [sc EXCEPT ![m] = @ + 1],
            result |-> NoValue, events |-> << <<"solve", m>> >>]
      ELSE LET k == sc[m] + 1
               c2 == CacheStore(c, m, SolveResult(m, k))
           IN  [raised |-> FALSE, cache |-> c2,
                solves |-> [sc EXCEPT ![m] = k], result |-> c2[m],
                events |-> << <<"solve", m>> >>]

\* ------------------------------------------------------- get_mcscf_results
\* One whole call, as a request handler makes it on the event loop (the
\* handlers are coroutines with no await, so a call runs to completion).
GetMcscfResults(c, sc, m) ==
  IF m \in DOMAIN c
    THEN [raised |-> FALSE, cache |-> c, solves |-> sc, result |-> c[m],
          events |-> << >>]
    ELSE IF m \notin DOMAIN MOLECULE_PRESETS
      THEN [raised |-> TRUE, cache |-> c, solves |-> sc, result |-> NoValue,
            events |-> << >>]
      ELSE LET k == sc[m] + 1
               r == SolveResult(m, k)
               c2 == CacheStore(c, m, r)
           IN  [raised |-> FALSE, cache |-> c2,
                solves |-> [sc EXCEPT ![m] = k], result |-> c2[m],
                events |-> << <<"solve", m>> >>]

\* raise ValueError(f"Unknown molecule: {molecule_id}") leaving a handler:
\* no handler catches it, so the server answers 500 Internal Server Error.
UnknownMoleculeResponse(m) ==
  [status |-> 500, kind |-> "unhandled",
   body |-> << "ValueError", "Unknown molecule: ", m >>]

\* natorbs[:, orbital_index] with an index below -n: numpy's IndexError.
IndexErrorResponse(i) ==
  [status |-> 500, kind |-> "unhandled", body |-> << "IndexError", i >>]

\* ---------------------------------------------------------------- sampling
\* get_grid_bounds: min and max corner, six float32 bit patterns.
GridBounds(m) ==
  LET x == PresetIndex(m)
  IN  [a \in 1..6 |-> << IF a <= 3 THEN 192 ELSE 64, 160 + a, x, 7 >>]

\* evaluate_orbital_on_grid, reshaped and cast to float32: grid_size^3 words
\* for column col of molecule m, x slowest and z fastest.
OrbitalGrid(m, col, g) ==
  LET x == PresetIndex(m)
      cells == Pow(g, 3)
  IN  [p \in 1..cells |-> << 61 + 128 * (col % 2), p % 256, col, x >>]

\* Index inputs a client may send: for the orbital counts n \in 1..MaxOrb they
\* hold indices in [0, n), equal to n, above n, in [-n, 0) and below -n.
IndexInputs == (0 - MaxOrb)..MaxOrb
GridSizes == 1..MaxGrid

RECURSIVE SeqsUpTo(_, _)
SeqsUpTo(S, n) ==
  IF n = 0 THEN { << >> }
  ELSE LET shorter == SeqsUpTo(S, n - 1)
       IN  shorter \cup { Append(q, x) : q \in shorter, x \in S }

\* What indices.split(",") parsed with int() can give: a non-empty list.  The
\* batch check treats every negative index alike, so -1 stands for them.
BatchIndexInputs == (0 - 1)..MaxOrb
IndexLists == SeqsUpTo(BatchIndexInputs, MaxLen) \ { << >> }

\* ------------------------------------------------------ GET /api/orbital/i
\* if orbital_index >= natorbs.shape[1]
SingleIndexRejected(i, n) == i >= n

\* struct.pack('3i6f', ...) + orbital_float32.tobytes(): no byte-order
\* prefix, so both parts are in the platform's native order.
SingleOrbitalBuffer(m, col, g, native) ==
  PackWords(<< Int32Word(g), Int32Word(g), Int32Word(g) >> \o GridBounds(m), native)
    \o PackWords(OrbitalGrid(m, col, g), native)

\* The handler's outcome once the solve result is at hand.
OrbitalDataOutcome(m, n, i, g, native) ==
  IF SingleIndexRejected(i, n)
    THEN [resp |-> [status |-> 400, kind |-> "text",
                    body |-> << "Orbital index ", i, " out of range" >>],
          events |-> << >>]
    ELSE IF i < 0 - n
      THEN [resp |-> IndexErrorResponse(i), events |-> << >>]
      ELSE LET col == IF i < 0 THEN n + i ELSE i
           IN  [resp |-> [status |-> 200, kind |-> "binary",
                          body |-> SingleOrbitalBuffer(m, col, g, native)],
                events |-> << <<"sample", col>> >>]

get_orbital_data(molecule, orbital_index, grid_size) ==
  /\ req = NoRequest
  /\ req' = [endpoint |-> "orbital", molecule |-> molecule,
             index |-> orbital_index, grid_size |-> grid_size]
  /\ LET got == GetMcscfResults(cache, solveCount, molecule)
     IN  /\ cache' = got.cache
         /\ solveCount' = got.solves
         /\ results' = got.result
         /\ IF got.raised
              THEN /\ resp' = UnknownMoleculeResponse(molecule)
                   /\ events' = got.events
              ELSE LET out == OrbitalDataOutcome(molecule, got.result.norb,
                                                 orbital_index, grid_size, byteorder)
                   IN  /\ resp' = out.resp
                       /\ events' = got.events \o out.events
  /\ UNCHANGED << byteorder, callerVars, labelVars >>

\* --------------------------------------------------- GET /api/orbitals/batch
\* The validation loop with the single-orbital endpoint's test, idx >= n only.
RECURSIVE FirstInvalid_NoNegative(_, _, _)
FirstInvalid_NoNegative(ixs, n, k) ==
  IF k > Len(ixs) THEN 0
  ELSE IF ixs[k] >= n THEN k
  ELSE FirstInvalid_NoNegative(ixs, n, k + 1)

\* The validation loop: the first index with idx < 0 or idx >= n, else 0.
RECURSIVE FirstInvalid(_, _, _)
FirstInvalid(ixs, n, k) ==
  IF k > Len(ixs) THEN 0
  ELSE IF ixs[k] < 0 \/ ixs[k] >= n THEN k
  ELSE FirstInvalid(ixs, n, k + 1)

\* The header in the order its comment gives: the bounds before the indices.
BatchHeader_BoundsFirst(m, ixs, g) ==
  PackWords(<< Int32Word(Len(ixs)), Int32Word(g), Int32Word(g), Int32Word(g) >>
              \o GridBounds(m)
              \o [k \in 1..Len(ixs) |-> Int32Word(ixs[k])], "little")

\* struct.pack(f'<{4 + num_orbs}i6f', num_orbs, g, g, g, *indices, bounds)
BatchHeader(m, ixs, g) ==
  PackWords(<< Int32Word(Len(ixs)), Int32Word(g), Int32Word(g), Int32Word(g) >>
              \o [k \in 1..Len(ixs) |-> Int32Word(ixs[k])]
              \o GridBounds(m), "little")

\* all_data.extend(orbital_grid.astype(np.float32).tobytes()) per index
BatchData(m, ixs, g, native) ==
  Flatten([k \in 1..Len(ixs) |-> PackWords(OrbitalGrid(m, ixs[k], g), native)])

OrbitalBatchOutcome(m, n, ixs, g, native) ==
  LET bad == FirstInvalid(ixs, n, 1)
  IN  IF bad # 0
        THEN [resp |-> [status |-> 400, kind |-> "text",
                        body |-> << "Orbital index ", ixs[bad],
                                    " out of range (0-", n - 1, ")" >>],
              events |-> << >>]
        ELSE [resp |-> [status |-> 200, kind |-> "binary",
                        body |-> BatchHeader(m, ixs, g) \o BatchData(m, ixs, g, native)],
              events |-> [k \in 1..Len(ixs) |-> <<"sample", ixs[k]>>]]

get_orbital_batch(molecule, indices, grid_size) ==
  /\ req = NoRequest
  /\ req' = [endpoint |-> "batch", molecule |-> molecule,
             indices |-> indices, grid_size |-> grid_size]
  /\ LET got == GetMcscfResults(cache, solveCount, molecule)
     IN  /\ cache' = got.cache
         /\ solveCount' = got.solves
         /\ results' = got.result
         /\ IF got.raised
              THEN /\ resp' = UnknownMoleculeResponse(molecule)
                   /\ events' = got.events
              ELSE LET out == OrbitalBatchOutcome(molecule, got.result.norb,
                                                  indices, grid_size, byteorder)
                   IN  /\ resp' = out.resp
                       /\ events' = got.events \o out.events
  /\ UNCHANGED << byteorder, callerVars, labelVars >>

\* ---------------------------------------------------- GET /api/molecule/info
get_molecule_info(molecule) ==
  /\ req = NoRequest
  /\ req' = [endpoint |-> "info", molecule |-> molecule]
  /\ LET got == GetMcscfResults(cache, solveCount, molecule)
     IN  /\ cache' = got.cache
         /\ solveCount' = got.solves
         /\ results' = got.result
         /\ IF got.raised
              THEN /\ resp' = UnknownMoleculeResponse(molecule)
                   /\ events' = got.events
              ELSE /\ resp' = [status |-> 200, kind |-> "json",
                               body |-> << "num_orbitals", got.result.norb >>]
                   /\ events' = got.events \o << <<"label", molecule>> >>
  /\ UNCHANGED << byteorder, callerVars, labelVars >>

\* The response is sent and the request is over.
Respond ==
  /\ req # NoRequest
  /\ req' = NoRequest
  /\ results' = NoValue
  /\ resp' = NoResponse
  /\ events' = << >>
  /\ UNCHANGED << cache, solveCount, byteorder, callerVars, labelVars >>

InitCallers ==
  /\ pc = [c \in Callers |-> "idle"]
  /\ arg = [c \in Callers |-> "none"]
  /\ built = [c \in Callers |-> NoValue]
  /\ ret = [c \in Callers |-> NoValue]

InitLabels ==
  /\ lmol = << >>
  /\ lcoeffs = << >>
  /\ labels = << >>

Init ==
  /\ cache = EmptyCache
  /\ solveCount = [m \in MoleculeIds |-> 0]
  /\ byteorder \in {"little", "big"}
  /\ req = NoRequest
  /\ results = NoValue
  /\ resp = NoResponse
  /\ events = << >>
  /\ InitCallers
  /\ InitLabels

\* The event loop starts a handler only when none is running; the routes
\* hand it the query parameters.
MoleculeInfoRoute ==
  /\ req = NoRequest
  /\ \E m \in MoleculeIds : get_molecule_info(m)

OrbitalDataRoute ==
  /\ req = NoRequest
  /\ \E m \in MoleculeIds, i \in IndexInputs, g \in GridSizes :
       get_orbital_data(m, i, g)

OrbitalBatchRoute ==
  /\ req = NoRequest
  /\ \E m \in MoleculeIds, ixs \in IndexLists, g \in GridSizes :
       get_orbital_batch(m, ixs, g)

Next ==
  \/ MoleculeInfoRoute
  \/ OrbitalDataRoute
  \/ OrbitalBatchRoute
  \/ Respond

Spec == Init /\ [][Next]_vars

\* ------------------------------------- get_mcscf_results, statement by statement
\* The function takes no lock.  Callers that run it on different threads are
\* switched between its statements (and during the solver run, which
\* releases the interpreter lock for seconds); each caller makes one call.
Call(c, m) ==
  /\ pc[c] = "idle"
  /\ pc' = [pc EXCEPT ![c] = "check"]
  /\ arg' = [arg EXCEPT ![c] = m]
  /\ UNCHANGED << serverVars, built, ret, labelVars >>

\* if molecule_id not in _cached_mcscf:
CheckCached(c) ==
  /\ pc[c] = "check"
  /\ pc' = [pc EXCEPT ![c] = IF arg[c] \in DOMAIN cache THEN "return" ELSE "lookup"]
  /\ UNCHANGED << serverVars, arg, built, ret, labelVars >>

\* preset = MOLECULE_PRESETS.get(molecule_id); if preset is None: raise
LookupPreset(c) ==
  /\ pc[c] = "lookup"
  /\ IF arg[c] \in DOMAIN MOLECULE_PRESETS
       THEN /\ pc' = [pc EXCEPT ![c] = "solve"]
            /\ ret' = ret
       ELSE /\ pc' = [pc EXCEPT ![c] = "raised"]
            /\ ret' = [ret EXCEPT ![c] = [NoValue EXCEPT !.mol = "ValueError"]]
  /\ UNCHANGED << serverVars, arg, built, labelVars >>

\* gto.M(...), RHF().run(), CASSCF(...).run(), cas_natorb(mc)
RunSolver(c) ==
  /\ pc[c] = "solve"
  /\ solveCount' = [solveCount EXCEPT ![arg[c]] = @ + 1]
  /\ built' = [built EXCEPT ![c] = SolveResult(arg[c], solveCount[arg[c]] + 1)]
  /\ pc' = [pc EXCEPT ![c] = "store"]
  /\ UNCHANGED << cache, byteorder, req, results, resp, events, arg, ret, labelVars >>

\* _cached_mcscf[molecule_id] = {...}
StoreResult(c) ==
  /\ pc[c] = "store"
  /\ cache' = CacheStore(cache, arg[c], built[c])
  /\ pc' = [pc EXCEPT ![c] = "return"]
  /\ UNCHANGED << solveCount, byteorder, req, results, resp, events, arg, built, ret, labelVars >>

\* return _cached_mcscf[molecule_id]
ReturnCached(c) ==
  /\ pc[c] = "return"
  /\ ret' = [ret EXCEPT ![c] = cache[arg[c]]]
  /\ pc' = [pc EXCEPT ![c] = "done"]
  /\ UNCHANGED << serverVars, arg, built, labelVars >>

InitConc ==
  /\ cache = EmptyCache
  /\ solveCount = [m \in MoleculeIds |-> 0]
  /\ byteorder = "little"
  /\ req = NoRequest
  /\ results = NoValue
  /\ resp = NoResponse
  /\ events = << >>
  /\ InitCallers
  /\ InitLabels

NextConc ==
  \/ \E c \in Callers, m \in MoleculeIds : Call(c, m)
  \/ \E c \in Callers : CheckCached(c)
  \/ \E c \in Callers : LookupPreset(c)
  \/ \E c \in Callers : RunSolver(c)
  \/ \E c \in Callers : StoreResult(c)
  \/ \E c \in Callers : ReturnCached(c)

SpecConc == InitConc /\ [][NextConc]_vars

Abs(x) == IF x < 0 THEN 0 - x ELSE x
Sign(x) == IF x > 0 THEN 1 ELSE IF x < 0 THEN 0 - 1 ELSE 0

\* f"{element}{atom_idx+1}" if the element's basis functions outnumber
\* len(mol.atom_coords()) // 2, else the bare element.
AtomLabel(mol, j) ==
  LET e == mol.aos[j].element
      count == Cardinality({ a \in 1..Len(mol.aos) : mol.aos[a].element = e })
  IN  IF count > mol.natoms \div 2
        THEN e \o ToString(mol.aos[j].atom + 1)
        ELSE e

\* The (atom_label, l_char, n_quantum) key of basis function j.
ShellKey(mol, j) == << AtomLabel(mol, j), mol.aos[j].l, mol.aos[j].n >>

RECURSIVE SumOver(_, _)
SumOver(f, S) ==
  IF S = {} THEN 0
  ELSE LET x == CHOOSE y \in S : TRUE IN f[x] + SumOver(f, S \ {x})

\* A dict filled in basis-function order: its items, keys in insertion
\* order, each with the summed weight of its basis functions.
RECURSIVE DictItems(_, _, _, _)
DictItems(keyOf, weights, j, acc) ==
  IF j > Len(keyOf) THEN acc
  ELSE IF \E k \in 1..Len(acc) : acc[k][1] = keyOf[j]
    THEN DictItems(keyOf, weights, j + 1,
           [k \in 1..Len(acc) |->
              IF acc[k][1] = keyOf[j] THEN << acc[k][1], acc[k][2] + weights[j] >>
              ELSE acc[k]])
    ELSE DictItems(keyOf, weights, j + 1, Append(acc, << keyOf[j], weights[j] >>))

\* sorted(items, key=lambda x: -x[1]): descending weight, stable.
RECURSIVE SortedByWeight(_)
SortedByWeight(items) ==
  IF items = << >> THEN << >>
  ELSE LET top == CHOOSE k \in 1..Len(items) :
                    /\ \A j \in 1..Len(items) : items[j][2] <= items[k][2]
                    /\ \A j \in 1..(k - 1) : items[j][2] < items[k][2]
           rest == [j \in 1..(Len(items) - 1) |->
                      IF j < top THEN items[j] ELSE items[j + 1]]
       IN  << items[top] >> \o SortedByWeight(rest)

\* frac > 0.15 and frac < 0.10 for frac = w / total_weight, in integers.
Over15(w, total) == 20 * w > 3 * total
Under10(w, total) == 10 * w < total

\* The loop building parts from sorted_al.
RECURSIVE ShellParts(_, _, _, _)
ShellParts(sortedAl, total, k, parts) ==
  IF k > Len(sortedAl) THEN parts
  ELSE IF Under10(sortedAl[k][2], total) /\ Len(parts) >= 1 THEN parts
  ELSE IF Len(parts) >= 2 THEN parts
  ELSE ShellParts(sortedAl, total, k + 1,
         Append(parts, sortedAl[k][1][1] \o " " \o sortedAl[k][1][3] \o sortedAl[k][1][2]))

\* The max_coeff loop comparing the signed values, without abs().
RECURSIVE MaxCoeffOf_Signed(_, _, _, _, _)
MaxCoeffOf_Signed(mol, coeffs, label, j, cur) ==
  IF j > Len(coeffs) THEN cur
  ELSE IF AtomLabel(mol, j) = label /\ coeffs[j] > cur
    THEN MaxCoeffOf_Signed(mol, coeffs, label, j + 1, coeffs[j])
    ELSE MaxCoeffOf_Signed(mol, coeffs, label, j + 1, cur)

\* The loop finding max_coeff for one atom label: the first coefficient of
\* strictly larger magnitude wins.
RECURSIVE MaxCoeffOf(_, _, _, _, _)
MaxCoeffOf(mol, coeffs, label, j, cur) ==
  IF j > Len(coeffs) THEN cur
  ELSE IF AtomLabel(mol, j) = label /\ Abs(coeffs[j]) > Abs(cur)
    THEN MaxCoeffOf(mol, coeffs, label, j + 1, coeffs[j])
    ELSE MaxCoeffOf(mol, coeffs, label, j + 1, cur)

\* is_antibonding = len(set(signs)) > 1
IsAntibonding(signs) == Cardinality({ signs[k] : k \in 1..Len(signs) }) > 1

\* "-".join(atom_names)
BondLabel(names) ==
  IF Len(names) = 1 THEN names[1] ELSE names[1] \o "-" \o names[2]

\* The body of the loop over orbitals, for orbital i (0-based).
LabelOrbital(mol, coeffs, i) ==
  LET nao == Len(mol.aos)
      weights == [j \in 1..nao |-> coeffs[j] * coeffs[j]]
      total == SumOver(weights, 1..nao)
      atomKeys == [j \in 1..nao |-> AtomLabel(mol, j)]
      shellKeys == [j \in 1..nao |-> ShellKey(mol, j)]
      sortedAtoms == SortedByWeight(DictItems(atomKeys, weights, 1, << >>))
      sortedAl == SortedByWeight(DictItems(shellKeys, weights, 1, << >>))
      parts == ShellParts(sortedAl, total, 1, << >>)
      IsMajor(item) == Over15(item[2], total)
      majorAtoms == SelectSeq(sortedAtoms, IsMajor)
      signs == [k \in 1..Len(majorAtoms) |->
                  Sign(MaxCoeffOf(mol, coeffs, majorAtoms[k][1], 1, 0))]
      atomNames == [k \in 1..(IF Len(majorAtoms) < 2 THEN Len(majorAtoms) ELSE 2) |->
                      majorAtoms[k][1]]
  IN  IF total = 0 THEN "MO " \o ToString(i + 1)
      ELSE IF Len(majorAtoms) > 1
        THEN IF IsAntibonding(signs)
               THEN "sigma*(" \o BondLabel(atomNames) \o ")"
               ELSE "sigma(" \o BondLabel(atomNames) \o ")"
        ELSE IF parts # << >> THEN parts[1] ELSE "MO " \o ToString(i + 1)

\* Molecules the labeler is applied to: 1..MaxAO atoms of two elements,
\* every atom with at least one basis function, the functions listed atom by
\* atom, each atom's first function a 1s and its further ones 2p.
Elements == {"H", "O"}
Coeffs == (0 - MaxCoeff)..MaxCoeff

AoAtoms(natoms) ==
  { a \in UNION { [1..n -> 0..(natoms - 1)] : n \in natoms..MaxAO } :
      /\ a[1] = 0
      /\ a[Len(a)] = natoms - 1
      /\ \A j \in 1..(Len(a) - 1) : a[j + 1] \in { a[j], a[j] + 1 } }

Molecule(elems, a) ==
  [natoms |-> Len(elems),
   aos |-> [j \in 1..Len(a) |->
              [atom |-> a[j], element |-> elems[a[j] + 1],
               n |-> IF j = 1 \/ a[j - 1] # a[j] THEN "1" ELSE "2",
               l |-> IF j = 1 \/ a[j - 1] # a[j] THEN "s" ELSE "p"]]]

Molecules ==
  UNION { { Molecule(elems, a) : elems \in [1..k -> Elements], a \in AoAtoms(k) } :
          k \in 1..MaxAO }

\* labels = generate_orbital_labels(mol, mo_coeffs, occupations) for the
\* one-column matrix whose column is lcoeffs.
generate_orbital_labels ==
  /\ labels = << >>
  /\ labels' = << LabelOrbital(lmol, lcoeffs, 0) >>
  /\ UNCHANGED << serverVars, callerVars, lmol, lcoeffs >>

InitLabel ==
  /\ cache = EmptyCache
  /\ solveCount = [m \in MoleculeIds |-> 0]
  /\ byteorder = "little"
  /\ req = NoRequest
  /\ results = NoValue
  /\ resp = NoResponse
  /\ events = << >>
  /\ InitCallers
  /\ lmol \in Molecules
  /\ lcoeffs \in [1..Len(lmol.aos) -> Coeffs]
  /\ labels = << >>

NextLabel == generate_orbital_labels

SpecLabel == InitLabel /\ [][NextLabel]_vars

\* ------------------------------------------------------------------ claims
Solved == \E k \in 1..Len(events) : events[k][1] = "solve"
Sampled == \E k \in 1..Len(events) : events[k][1] = "sample"
Serving == req # NoRequest
RegisteredRequest == Serving /\ req.molecule \in PresetKeys
UnknownRequest == Serving /\ req.molecule \notin PresetKeys
OutOfRange(i, n) == i < 0 \/ i >= n

\* C2: over any sequence of get calls made one after another, the solver has
\* run at most once per preset, the cache's keys are preset keys, a written
\* entry is never removed or replaced, and a get for an id already cached
\* returns the stored entry itself without a solver run.
C2_CacheOnce ==
  /\ [](/\ \A m \in PresetKeys : solveCount[m] <= 1
        /\ DOMAIN cache \subseteq DOMAIN MOLECULE_PRESETS)
  /\ [][/\ \A m \in DOMAIN cache : m \in DOMAIN cache' /\ cache'[m] = cache[m]
        /\ (~Serving /\ Serving' /\ req'.molecule \in DOMAIN cache)
             => /\ results' = cache[req'.molecule]
                /\ solveCount' = solveCount
                /\ ~Solved']_vars

C2_Witness ==
  /\ Serving
  /\ req.molecule \in DOMAIN cache
  /\ ~Solved
  /\ results = cache[req.molecule]
  /\ results.run = 1
  /\ Cardinality(DOMAIN cache) >= 2

\* C3: a request naming an id that is no preset, on any of the three
\* endpoints and in any cache state, fails in get with the unknown-molecule
\* error: no solver run, no result, the cache unchanged.
C3_UnknownFailsFirst ==
  [][(~Serving /\ Serving' /\ req'.molecule \notin PresetKeys)
       => /\ resp'.kind = "unhandled"
          /\ resp'.body = << "ValueError", "Unknown molecule: ", req'.molecule >>
          /\ results' = NoValue
          /\ events' = << >>
          /\ solveCount' = solveCount
          /\ cache' = cache]_vars

C3_Witness ==
  /\ UnknownRequest
  /\ req.endpoint = "batch"
  /\ cache # EmptyCache
  /\ resp.kind = "unhandled"
  /\ \A m \in MoleculeIds \ PresetKeys : solveCount[m] = 0

\* C4: a request naming an id that is no preset is answered with a 4xx
\* response that carries the id.
C4_Unknown4xx ==
  UnknownRequest =>
    /\ resp.status \in 400..499
    /\ \E k \in 1..Len(resp.body) : resp.body[k] = req.molecule

\* C5: on the single-orbital endpoint, for a preset with n orbitals, every
\* index outside [0, n) gets a 400 plain-text response and nothing is
\* sampled; only indices in [0, n) are sampled.
C5_SingleIndexChecked ==
  (RegisteredRequest /\ req.endpoint = "orbital") =>
    IF OutOfRange(req.index, results.norb)
      THEN resp.status = 400 /\ resp.kind = "text" /\ ~Sampled
      ELSE resp.status = 200

\* C6: on the batch endpoint, for a preset with n orbitals, a list holding
\* an index outside [0, n) gets a 400 plain-text response naming the first
\* such index in the caller's order and the range 0..n-1, nothing is sampled
\* and no grid data is returned; a list of indices all in [0, n) gets no
\* such error.
C6_BatchFirstInvalid ==
  (RegisteredRequest /\ req.endpoint = "batch") =>
    LET n == results.norb
        ixs == req.indices
        bad == { k \in 1..Len(ixs) : OutOfRange(ixs[k], n) }
    IN  IF bad # {}
          THEN LET first == CHOOSE k \in bad : \A j \in bad : k <= j
               IN  /\ resp.status = 400
                   /\ resp.kind = "text"
                   /\ resp.body = << "Orbital index ", ixs[first],
                                     " out of range (0-", n - 1, ")" >>
                   /\ ~Sampled
          ELSE resp.status = 200 /\ resp.kind = "binary"

C6_Witness ==
  /\ RegisteredRequest
  /\ req.endpoint = "batch"
  /\ Len(req.indices) = 2
  /\ OutOfRange(req.indices[1], results.norb)
  /\ OutOfRange(req.indices[2], results.norb)
  /\ req.indices[1] # req.indices[2]
  /\ resp.status = 400
  /\ resp.body[2] = req.indices[1]

\* C7: on the single-orbital and batch endpoints, a request whose id or
\* whose orbital index is invalid triggers neither a solver run nor a grid
\* sampling, whatever the cache holds when it arrives.
C7_ValidateBeforeWork ==
  (Serving /\ req.endpoint \in {"orbital", "batch"}) =>
    LET idBad == req.molecule \notin PresetKeys
        ixBad == /\ ~idBad
                 /\ IF req.endpoint = "orbital"
                      THEN OutOfRange(req.index, NumOrbitals(req.molecule))
                      ELSE \E k \in 1..Len(req.indices) :
                             OutOfRange(req.indices[k], NumOrbitals(req.molecule))
    IN  (idBad \/ ixBad) => (~Solved /\ ~Sampled)

\* Word k of a buffer (bytes 4k-3..4k), read in the given byte order and
\* written most significant byte first.
WordAt(buf, k, order) ==
  LET b == [j \in 1..4 |-> buf[4 * (k - 1) + j]]
  IN  IF order = "little" THEN << b[4], b[3], b[2], b[1] >> ELSE b

C9_LittleEndianAlways ==
  (Serving /\ resp.kind = "binary") =>
    \A k \in 1..(Len(resp.body) \div 4) :
      WordAt(resp.body, k, "little") =
        WordAt(IF req.endpoint = "orbital"
                 THEN SingleOrbitalBuffer(req.molecule,
                        IF req.index < 0 THEN results.norb + req.index ELSE req.index,
                        req.grid_size, "little")
                 ELSE BatchHeader(req.molecule, req.indices, req.grid_size)
                        \o BatchData(req.molecule, req.indices, req.grid_size, "little"),
               k, "little")

\* C10: for an orbital of non-zero total weight in which at least two atom
\* labels each carry more than 15% of the squared-coefficient weight, the
\* label is sigma*(A-B) exactly when the signs of the largest-magnitude
\* coefficient of each such atom (the first one in basis order on a tie) are
\* not all equal, and sigma(A-B) otherwise, A and B being the two
\* highest-weight atom labels, heavier first.
C10_BondingLabel ==
  labels # << >> =>
    LET J == 1..Len(lcoeffs)
        sq == [j \in J |-> lcoeffs[j] * lcoeffs[j]]
        total == SumOver(sq, J)
        atomLabels == { AtomLabel(lmol, j) : j \in J }
        Of(a) == { j \in J : AtomLabel(lmol, j) = a }
        W(a) == SumOver(sq, Of(a))
        major == { a \in atomLabels : 100 * W(a) > 15 * total }
        Dominant(a) ==
          CHOOSE j \in Of(a) :
            \A i \in Of(a) :
              \/ Abs(lcoeffs[i]) < Abs(lcoeffs[j])
              \/ Abs(lcoeffs[i]) = Abs(lcoeffs[j]) /\ j <= i
        anti == \E a, b \in major :
                  Sign(lcoeffs[Dominant(a)]) # Sign(lcoeffs[Dominant(b)])
        Form(prefix) == { prefix \o a \o "-" \o b \o ")" : a, b \in atomLabels }
    IN  /\ (total > 0 /\ Cardinality(major) >= 2) =>
             \E a, b \in major :
               /\ a # b
               /\ W(a) >= W(b)
               /\ \A x \in major \ {a, b} : W(x) <= W(b)
               /\ labels[1] = (IF anti THEN "sigma*(" ELSE "sigma(") \o a \o "-" \o b \o ")"
        /\ (lmol.natoms = 2 /\ Len(lcoeffs) = 2 /\ lcoeffs = << 1, 0 - 1 >>)
             => labels[1] \in Form("sigma*(")
        /\ (lmol.natoms = 2 /\ Len(lcoeffs) = 2 /\ lcoeffs = << 1, 1 >>)
             => labels[1] \in Form("sigma(")

\* The two-atom, two-function system with coefficients [1, -1].
C10_Witness ==
  /\ labels # << >>
  /\ lmol.natoms = 2
  /\ Len(lmol.aos) = 2
  /\ lcoeffs = << 1, 0 - 1 >>
  /\ lmol.aos[1].element = "H"
  /\ lmol.aos[2].element = "H"
  /\ labels[1] = "sigma*(H1-H2)"

====
